---- MODULE Spec2Model ----
(***************************************************************************)
(* Model of nova-chatmix.py: the HID frame codec (_create_msgdata and the  *)
(* way the read loops decode a frame), the device session setters, the     *)
(* ChatMix control loop, the signal handler NovaProWireless.close and the  *)
(* main program.                                                           *)
(*                                                                         *)
(* Python indexes from 0, TLA+ sequences from 1: msg[1] of the source is   *)
(* msg[2] here.                                                            *)
(***************************************************************************)
EXTENDS Integers, Sequences, FiniteSets, TLC

(* ----------------------------- bounds ---------------------------------- *)
\* ChatMix frames the loop may receive in one run
MaxFrames == 2
\* termination signals delivered in one run
MaxSignals == 2
\* setter calls in one run of the session specification
MaxCalls == 3

(* ------------------------- program constants --------------------------- *)
VID == 4152
PID_LIST == <<4832, 4837, 4811, 4813>>
INTERFACE == 4
MSGLEN == 63
TX == 6
RX == 7
OPT_SONAR_ICON == 141
OPT_CHATMIX_ENABLE == 73
OPT_VOLUME == 37
OPT_CHATMIX == 69
OPT_EQ == 49
OPT_EQ_PRESET == 46
PW_GAME_SINK == "NovaGame"
PW_CHAT_SINK == "NovaChat"

KnownOpcodes ==
  {OPT_SONAR_ICON, OPT_CHATMIX_ENABLE, OPT_VOLUME, OPT_CHATMIX, OPT_EQ, OPT_EQ_PRESET}

(* ------------------------------ codec ---------------------------------- *)
Zeros(n) == [i \in 1..n |-> 0]

\* bytes.ljust(width, b"\0"): pads on the right, returns the bytes unchanged
\* when they are already width long or longer
ljustMut(s, width) == IF Len(s) >= width THEN s ELSE Zeros(width - Len(s)) \o s

ljust(s, width) == IF Len(s) >= width THEN s ELSE s \o Zeros(width - Len(s))

\* bytes(data): ValueError unless every element is in range(256)
bytesOf(data) ==
  IF \A i \in 1..Len(data) : data[i] \in 0..255
  THEN [err |-> "none", bytes |-> data]
  ELSE [err |-> "ValueError", bytes |-> <<>>]

create_msgdataMut(data) ==
  LET b == bytesOf(data)
  IN  IF b.err = "none"
      THEN [err |-> "none", bytes |-> ljust(b.bytes, MSGLEN + 1)]
      ELSE b

\* _create_msgdata: bytes(data).ljust(self.MSGLEN, b"\0")
create_msgdata(data) ==
  LET b == bytesOf(data)
  IN  IF b.err = "none"
      THEN [err |-> "none", bytes |-> ljust(b.bytes, MSGLEN)]
      ELSE b

\* int(state) of a bool
intOf(state) == IF state THEN 1 ELSE 0

\* How chatmix_volume_control and print_output take a frame apart
msgOpcode(msg) == msg[2]
msgPayload(msg) == SubSeq(msg, 3, Len(msg))

(* ------------------------------ state ---------------------------------- *)
VARIABLES
  pc,                        \* position of the main program / name of the harness
  hidDevices,                \* HID devices attached to the host
  dev,                       \* self.dev: {} before open_path, then {the opened device}
  output_sink,               \* self.output_sink: "none" or "found"
  CLOSE,                     \* NovaProWireless.CLOSE
  CHATMIX_CONTROLS_ENABLED,  \* NovaProWireless.CHATMIX_CONTROLS_ENABLED
  SONAR_ICON_ENABLED,        \* NovaProWireless.SONAR_ICON_ENABLED
  handlers,                  \* signals whose handler is nova.close
  hstack,                    \* positions of the running (nested) invocations of close
  sigCount,                  \* signals delivered so far
  written,                   \* frames passed to dev.write, in order
  writers,                   \* history: the setter that wrote each frame
  msg,                       \* local msg of chatmix_volume_control, until the loop body ends
  sinkProcs,                 \* the two pw-loopback processes of ChatMix
  pactl,                     \* pactl set-sink-volume commands: how many, and the latest pair
  setVolumesCalls,           \* calls of ChatMix.set_volumes: how many, and the latest arguments
  chatmixCloseCalls,         \* calls of ChatMix.close
  ignored,                   \* history: a frame with another opcode has been discarded
  rxChatMix,                 \* history: ChatMix frames read: how many, and the latest payload
  stopInfo,                  \* history: cause and flags when CLOSE first became true
  discInfo,                  \* history: flags when a read raised OSError
  nested,                    \* history: a signal arrived while close was running
  afterClose,                \* history: reads and set_volumes calls since close set CLOSE
  lastCmd,                   \* history: argument of the last command per feature
  calls,                     \* setter calls made by the session harness
  encIn,                     \* codec harness: the data tuple
  encOut,                    \* codec harness: result of _create_msgdata
  decOut,                    \* codec harness: what a read loop takes out of the frame
  fault,                     \* history: the error injected into the run, "none" without one
  pending,                   \* pactl processes spawned and not yet run
  sinkVolume,                \* volume of the two virtual sinks, <<>> while never set
  printed                    \* print_output: the kinds of the lines printed, in order

vars == <<pc, hidDevices, dev, output_sink, CLOSE, CHATMIX_CONTROLS_ENABLED,
          SONAR_ICON_ENABLED, handlers, hstack, sigCount, written, writers, msg, sinkProcs,
          pactl, setVolumesCalls, chatmixCloseCalls, ignored, rxChatMix, stopInfo, discInfo,
          nested, afterClose, lastCmd, calls, encIn, encOut, decOut,
          fault, pending, sinkVolume, printed>>

sessionVars ==
  <<dev, CLOSE, CHATMIX_CONTROLS_ENABLED, SONAR_ICON_ENABLED, written, writers, lastCmd>>
envVars == <<hidDevices, output_sink, handlers, sigCount>>
loopVars == <<msg, sinkProcs, pactl, setVolumesCalls, chatmixCloseCalls, rxChatMix>>
histVars == <<stopInfo, discInfo, nested, afterClose, ignored>>
codecVars == <<encIn, encOut, decOut>>
auxVars == <<fault, pending, sinkVolume, printed>>

(* --------------------------- input domains ----------------------------- *)
\* byte values used for payloads: zero, a percentage, the maximum of a byte
ByteSamples == {0, 70, 255}

\* opcode bytes the program does not know
UnknownOpcodes == {0, 255}

GoodDevice == [vid |-> VID, pid |-> 4837, iface |-> INTERFACE]
WrongInterface == [vid |-> VID, pid |-> 4832, iface |-> 3]
WrongProduct == [vid |-> VID, pid |-> 8704, iface |-> INTERFACE]
HidUniverse == {GoodDevice, WrongInterface, WrongProduct}

\* hosts: every set of devices without the headset, and the headset next to
\* the others
Hosts == SUBSET {WrongInterface, WrongProduct} \cup {HidUniverse}

NoFlagInfo == [cause |-> "none", len |-> 0, chatmix |-> FALSE, icon |-> FALSE]

(* ------------------------- device resolution --------------------------- *)
\* hid.enumerate(vid, pid)
hidenumerate(devs, vid, pid) == {d \in devs : d.vid = vid /\ d.pid = pid}

MatchesMut(devs, pid) == hidenumerate(devs, VID, pid)

\* the devices of one product id that ResolveHidDevPath accepts
Matches(devs, pid) == {d \in hidenumerate(devs, VID, pid) : d.iface = INTERFACE}

\* ResolveHidDevPath: the paths it may return (the first product id of PID_LIST
\* with a match; the order within one enumeration is the library's); the empty
\* set when it raises DeviceNotFoundException
ResolveHidDevPath(devs) ==
  LET hits == {k \in 1..Len(PID_LIST) : Matches(devs, PID_LIST[k]) # {}}
  IN  IF hits = {} THEN {}
      ELSE Matches(devs, PID_LIST[CHOOSE k \in hits : \A j \in hits : k <= j])

(* --------------------------- device session --------------------------- *)
ChatmixControlsMsg(state) == create_msgdata(<<TX, OPT_CHATMIX_ENABLE, intOf(state)>>)
SonarIconMsg(state) == create_msgdata(<<TX, OPT_SONAR_ICON, intOf(state)>>)
VolumeMsg(attenuation) == create_msgdata(<<TX, OPT_VOLUME, attenuation>>)
EqPresetMsg(preset) == create_msgdata(<<TX, OPT_EQ_PRESET, preset>>)

set_chatmix_controlsMut(state) ==
  /\ dev # {}
  /\ written' = Append(written, ChatmixControlsMsg(state).bytes)
  /\ writers' = Append(writers, "set_chatmix_controls")
  /\ CHATMIX_CONTROLS_ENABLED' = TRUE
  /\ lastCmd' = [lastCmd EXCEPT !.chatmix = <<state>>]
  /\ UNCHANGED <<dev, CLOSE, SONAR_ICON_ENABLED>>

\* set_chatmix_controls: write the frame, then record the state
set_chatmix_controls(state) ==
  /\ dev # {}
  /\ written' = Append(written, ChatmixControlsMsg(state).bytes)
  /\ writers' = Append(writers, "set_chatmix_controls")
  /\ CHATMIX_CONTROLS_ENABLED' = state
  /\ lastCmd' = [lastCmd EXCEPT !.chatmix = <<state>>]
  /\ UNCHANGED <<dev, CLOSE, SONAR_ICON_ENABLED>>

\* set_sonar_icon: write the frame, then record the state
set_sonar_icon(state) ==
  /\ dev # {}
  /\ written' = Append(written, SonarIconMsg(state).bytes)
  /\ writers' = Append(writers, "set_sonar_icon")
  /\ SONAR_ICON_ENABLED' = state
  /\ lastCmd' = [lastCmd EXCEPT !.icon = <<state>>]
  /\ UNCHANGED <<dev, CLOSE, CHATMIX_CONTROLS_ENABLED>>

\* set_volume: bytes() raises ValueError for a value outside 0..255, before the write
set_volume(attenuation) ==
  /\ dev # {}
  /\ written' = IF VolumeMsg(attenuation).err = "none"
                THEN Append(written, VolumeMsg(attenuation).bytes)
                ELSE written
  /\ writers' = IF VolumeMsg(attenuation).err = "none" THEN Append(writers, "set_volume") ELSE writers
  /\ UNCHANGED <<dev, CLOSE, CHATMIX_CONTROLS_ENABLED, SONAR_ICON_ENABLED, lastCmd>>

\* set_eq_preset: as set_volume
set_eq_preset(preset) ==
  /\ dev # {}
  /\ written' = IF EqPresetMsg(preset).err = "none"
                THEN Append(written, EqPresetMsg(preset).bytes)
                ELSE written
  /\ writers' = IF EqPresetMsg(preset).err = "none" THEN Append(writers, "set_eq_preset") ELSE writers
  /\ UNCHANGED <<dev, CLOSE, CHATMIX_CONTROLS_ENABLED, SONAR_ICON_ENABLED, lastCmd>>

\* the flags at the moment the loop is told to stop
FlagInfo(cause) ==
  [cause |-> cause, len |-> Len(written),
   chatmix |-> CHATMIX_CONTROLS_ENABLED, icon |-> SONAR_ICON_ENABLED]

(* ---------------------------- main program ----------------------------- *)
TerminalPcs == {"done", "notfound", "crashed", "killed"}
LoopPcs == {"loop", "read", "act"}

\* the main program runs only while no invocation of the signal handler is active
MainAt(p) == pc = p /\ hstack = <<>>

\* NovaProWireless(): resolve the device path, look for the output sink, open the device
NovaInit ==
  /\ MainAt("start")
  /\ IF ResolveHidDevPath(hidDevices) = {}
     THEN /\ pc' = "notfound"
          /\ UNCHANGED <<dev, output_sink>>
     ELSE \E path \in ResolveHidDevPath(hidDevices), sinks \in {"found", "none", "error"} :
            IF sinks = "error"
            THEN pc' = "crashed" /\ UNCHANGED <<dev, output_sink>>
            ELSE pc' = "icon" /\ dev' = {path} /\ output_sink' = sinks
  /\ UNCHANGED <<hidDevices, CLOSE, CHATMIX_CONTROLS_ENABLED, SONAR_ICON_ENABLED, handlers,
                 hstack, sigCount, written, writers, lastCmd, calls>>
  /\ UNCHANGED <<loopVars, histVars, codecVars, auxVars>>

\* nova.set_sonar_icon(state=True)
MainSonarIcon ==
  /\ MainAt("icon")
  /\ set_sonar_icon(TRUE)
  /\ pc' = "controls"
  /\ UNCHANGED <<envVars, hstack, calls, loopVars, histVars, codecVars, auxVars>>

\* nova.set_chatmix_controls(state=True)
MainChatmixControls ==
  /\ MainAt("controls")
  /\ set_chatmix_controls(TRUE)
  /\ pc' = "sigint"
  /\ UNCHANGED <<envVars, hstack, calls, loopVars, histVars, codecVars, auxVars>>

\* signal(SIGINT, nova.close)
InstallSigint ==
  /\ MainAt("sigint")
  /\ handlers' = handlers \cup {"SIGINT"}
  /\ pc' = "sigterm"
  /\ UNCHANGED <<hidDevices, output_sink, sigCount, hstack, calls>>
  /\ UNCHANGED <<sessionVars, loopVars, histVars, codecVars, auxVars>>

\* signal(SIGTERM, nova.close)
InstallSigterm ==
  /\ MainAt("sigterm")
  /\ handlers' = handlers \cup {"SIGTERM"}
  /\ pc' = "assert"
  /\ UNCHANGED <<hidDevices, output_sink, sigCount, hstack, calls>>
  /\ UNCHANGED <<sessionVars, loopVars, histVars, codecVars, auxVars>>

\* assert nova.output_sink: an AssertionError is not caught by the main program
AssertOutputSink ==
  /\ MainAt("assert")
  /\ pc' = IF output_sink = "none" THEN "crashed" ELSE "chatmix"
  /\ UNCHANGED <<envVars, hstack, calls, sessionVars, loopVars, histVars, codecVars, auxVars>>

\* ChatMix(...): two Popen calls; a Popen that raises ends the program
CreateChatMix ==
  /\ MainAt("chatmix")
  /\ \E outcome \in {"ok", "first_fails", "second_fails"} :
       /\ sinkProcs' = [main |-> IF outcome = "first_fails" THEN "none" ELSE "running",
                        chat |-> IF outcome = "ok" THEN "running" ELSE "none"]
       /\ pc' = IF outcome = "ok" THEN "loop" ELSE "crashed"
  /\ UNCHANGED <<msg, pactl, setVolumesCalls, chatmixCloseCalls, rxChatMix>>
  /\ UNCHANGED <<envVars, hstack, calls, sessionVars, histVars, codecVars, auxVars>>

(* ------------------------ ChatMix control loop ------------------------- *)
\* frames the base station sends: 63 bytes, opcode at byte 1, payload from byte 2
RxFrame(op, b2, b3) == <<RX, op, b2, b3>> \o Zeros(MSGLEN - 4)
\* dial positions (game, chat): the device's percentages, and bytes above 100
ChatMixLevels == {<<70, 30>>, <<0, 100>>, <<255, 101>>}
ChatMixFrames == {RxFrame(OPT_CHATMIX, l[1], l[2]) : l \in ChatMixLevels}
OtherFrames ==
  {RxFrame(op, 70, 30) : op \in (KnownOpcodes \ {OPT_CHATMIX}) \cup UnknownOpcodes}

\* ChatMix._set_volume: spawn pactl set-sink-volume input.<sink> <volume>%
set_volume_cmd(sink, volume) == [sink |-> sink, volume |-> volume]

set_volumesMut(main_volume, chat_volume) ==
  /\ setVolumesCalls' = [n |-> setVolumesCalls.n + 1, last |-> <<chat_volume, main_volume>>]
  /\ pactl' = [n |-> pactl.n + 2,
               last |-> <<set_volume_cmd(PW_GAME_SINK, chat_volume),
                          set_volume_cmd(PW_CHAT_SINK, main_volume)>>]

\* ChatMix.set_volumes: set_main_volume, then set_chat_volume
set_volumes(main_volume, chat_volume) ==
  /\ setVolumesCalls' = [n |-> setVolumesCalls.n + 1, last |-> <<main_volume, chat_volume>>]
  /\ pactl' = [n |-> pactl.n + 2,
               last |-> <<set_volume_cmd(PW_GAME_SINK, main_volume),
                          set_volume_cmd(PW_CHAT_SINK, chat_volume)>>]

Bump(n) == IF n < 2 THEN n + 1 ELSE n

LoopCheckMut ==
  /\ MainAt("loop")
  /\ pc' = IF CLOSE /\ afterClose.reads > 1 THEN "close" ELSE "read"
  /\ UNCHANGED <<envVars, hstack, calls, sessionVars, loopVars, histVars, codecVars, auxVars>>

\* while not self.CLOSE
LoopCheck ==
  /\ MainAt("loop")
  /\ pc' = IF CLOSE THEN "close" ELSE "read"
  /\ UNCHANGED <<envVars, hstack, calls, sessionVars, loopVars, histVars, codecVars, auxVars>>

ReadTimeoutMut ==
  /\ MainAt("read")
  /\ msg' = <<>>
  /\ pc' = "act"
  /\ CLOSE' = TRUE
  /\ afterClose' = IF afterClose.armed
                   THEN [afterClose EXCEPT !.reads = Bump(afterClose.reads)]
                   ELSE afterClose
  /\ UNCHANGED <<dev, CHATMIX_CONTROLS_ENABLED, SONAR_ICON_ENABLED, written, writers, lastCmd>>
  /\ UNCHANGED <<sinkProcs, pactl, setVolumesCalls, chatmixCloseCalls, rxChatMix>>
  /\ UNCHANGED <<stopInfo, discInfo, nested, ignored>>
  /\ UNCHANGED <<envVars, hstack, calls, codecVars, auxVars>>

\* self.dev.read(MSGLEN, READ_TIMEOUT) returns nothing within the timeout
ReadTimeout ==
  /\ MainAt("read")
  /\ msg' = <<>>
  /\ pc' = "act"
  /\ afterClose' = IF afterClose.armed
                   THEN [afterClose EXCEPT !.reads = Bump(afterClose.reads)]
                   ELSE afterClose
  /\ UNCHANGED <<sinkProcs, pactl, setVolumesCalls, chatmixCloseCalls, rxChatMix>>
  /\ UNCHANGED <<stopInfo, discInfo, nested, ignored>>
  /\ UNCHANGED <<envVars, hstack, calls, sessionVars, codecVars, auxVars>>

\* self.dev.read(MSGLEN, READ_TIMEOUT) returns a frame
ReadFrame ==
  /\ MainAt("read")
  /\ \/ \E f \in OtherFrames : msg' = f /\ UNCHANGED rxChatMix
     \/ /\ rxChatMix.n < MaxFrames
        /\ \E f \in ChatMixFrames :
             msg' = f /\ rxChatMix' = [n |-> rxChatMix.n + 1, last |-> <<f[3], f[4]>>]
  /\ pc' = "act"
  /\ afterClose' = IF afterClose.armed
                   THEN [afterClose EXCEPT !.reads = Bump(afterClose.reads)]
                   ELSE afterClose
  /\ UNCHANGED <<sinkProcs, pactl, setVolumesCalls, chatmixCloseCalls>>
  /\ UNCHANGED <<stopInfo, discInfo, nested, ignored>>
  /\ UNCHANGED <<envVars, hstack, calls, sessionVars, codecVars, auxVars>>

ReadErrorMut ==
  /\ MainAt("read")
  /\ pc' = "loop"
  /\ discInfo' = FlagInfo("disconnected")
  /\ afterClose' = IF afterClose.armed
                   THEN [afterClose EXCEPT !.reads = Bump(afterClose.reads)]
                   ELSE afterClose
  /\ UNCHANGED <<sessionVars, stopInfo>>
  /\ UNCHANGED <<envVars, hstack, calls, nested, ignored, loopVars, codecVars, auxVars>>

\* self.dev.read raises OSError: except OSError sets CLOSE
ReadError ==
  /\ MainAt("read")
  /\ CLOSE' = TRUE
  /\ pc' = "loop"
  /\ discInfo' = FlagInfo("disconnected")
  /\ stopInfo' = IF CLOSE THEN stopInfo ELSE FlagInfo("disconnected")
  /\ afterClose' = IF afterClose.armed
                   THEN [afterClose EXCEPT !.reads = Bump(afterClose.reads)]
                   ELSE afterClose
  /\ UNCHANGED <<dev, CHATMIX_CONTROLS_ENABLED, SONAR_ICON_ENABLED, written, writers, lastCmd>>
  /\ UNCHANGED <<envVars, hstack, calls, nested, ignored, loopVars, codecVars, auxVars>>

ActMut ==
  /\ MainAt("act")
  /\ IF msg = <<>> \/ msgOpcode(msg) # OPT_CHATMIX \/ msg[3] > 100 \/ msg[4] > 100
     THEN UNCHANGED <<pactl, setVolumesCalls, afterClose>>
     ELSE /\ set_volumes(msg[3], msg[4])
          /\ afterClose' = IF afterClose.armed
                           THEN [afterClose EXCEPT !.vols = Bump(afterClose.vols)]
                           ELSE afterClose
  /\ ignored' = (ignored \/ (msg # <<>> /\ msgOpcode(msg) # OPT_CHATMIX))
  /\ msg' = <<>>
  /\ pc' = "loop"
  /\ UNCHANGED <<sinkProcs, chatmixCloseCalls, rxChatMix>>
  /\ UNCHANGED <<stopInfo, discInfo, nested>>
  /\ UNCHANGED <<envVars, hstack, calls, sessionVars, codecVars, auxVars>>

ActMutEq ==
  /\ MainAt("act")
  /\ IF msg = <<>> \/ msgOpcode(msg) \notin {OPT_CHATMIX, OPT_EQ}
     THEN UNCHANGED <<pactl, setVolumesCalls, afterClose>>
     ELSE /\ set_volumes(msg[3], msg[4])
          /\ afterClose' = IF afterClose.armed
                           THEN [afterClose EXCEPT !.vols = Bump(afterClose.vols)]
                           ELSE afterClose
  /\ ignored' = (ignored \/ (msg # <<>> /\ msgOpcode(msg) # OPT_CHATMIX))
  /\ msg' = <<>>
  /\ pc' = "loop"
  /\ UNCHANGED <<sinkProcs, chatmixCloseCalls, rxChatMix>>
  /\ UNCHANGED <<stopInfo, discInfo, nested>>
  /\ UNCHANGED <<envVars, hstack, calls, sessionVars, codecVars, auxVars>>

\* if not msg or msg[1] is not self.OPT_CHATMIX: continue
\* otherwise chatmix.set_volumes(msg[2], msg[3])
Act ==
  /\ MainAt("act")
  /\ IF msg = <<>> \/ msgOpcode(msg) # OPT_CHATMIX
     THEN UNCHANGED <<pactl, setVolumesCalls, afterClose>>
     ELSE /\ set_volumes(msg[3], msg[4])
          /\ afterClose' = IF afterClose.armed
                           THEN [afterClose EXCEPT !.vols = Bump(afterClose.vols)]
                           ELSE afterClose
  /\ ignored' = (ignored \/ (msg # <<>> /\ msgOpcode(msg) # OPT_CHATMIX))
  /\ msg' = <<>>
  /\ pc' = "loop"
  /\ UNCHANGED <<sinkProcs, chatmixCloseCalls, rxChatMix>>
  /\ UNCHANGED <<stopInfo, discInfo, nested>>
  /\ UNCHANGED <<envVars, hstack, calls, sessionVars, codecVars, auxVars>>

terminateMut(p) ==
  IF p = "running" THEN [err |-> "none", state |-> "terminated"]
  ELSE [err |-> "ProcessLookupError", state |-> p]

\* Popen.terminate(): SIGTERM to a child that runs; for a child that has ended
\* it does nothing and raises nothing
terminate(p) ==
  [err |-> "none", state |-> IF p = "running" THEN "terminated" ELSE p]

\* ChatMix.close: main_sink_process.terminate(), then chat_sink_process.terminate()
ChatMix_close(procs) ==
  LET m == terminate(procs.main)
      c == terminate(procs.chat)
  IN  IF m.err # "none" THEN [err |-> m.err, procs |-> procs]
      ELSE [err |-> c.err, procs |-> [main |-> m.state, chat |-> c.state]]

ChatMixCloseMut ==
  /\ MainAt("close")
  /\ sinkProcs' = [sinkProcs EXCEPT !.main = "terminated"]
  /\ chatmixCloseCalls' = chatmixCloseCalls + 1
  /\ pc' = "done"
  /\ UNCHANGED <<msg, pactl, setVolumesCalls, rxChatMix>>
  /\ UNCHANGED <<envVars, hstack, calls, sessionVars, histVars, codecVars, auxVars>>

\* chatmix.close(): terminate both loopback processes
ChatMixClose ==
  /\ MainAt("close")
  /\ sinkProcs' = ChatMix_close(sinkProcs).procs
  /\ chatmixCloseCalls' = chatmixCloseCalls + 1
  /\ pc' = IF ChatMix_close(sinkProcs).err = "none" THEN "done" ELSE "crashed"
  /\ UNCHANGED <<msg, pactl, setVolumesCalls, rxChatMix>>
  /\ UNCHANGED <<envVars, hstack, calls, sessionVars, histVars, codecVars, auxVars>>

(* --------------------- signals and NovaProWireless.close --------------- *)
MainPcs == {"start", "icon", "controls", "sigint", "sigterm", "assert", "chatmix",
            "loop", "read", "act", "close"}

\* a SIGINT or SIGTERM arrives: nova.close starts if it is installed for the
\* signal (also on top of a running invocation); otherwise the default
\* disposition ends the program
Signal(s) ==
  /\ pc \in MainPcs
  /\ sigCount < MaxSignals
  /\ sigCount' = sigCount + 1
  /\ IF s \in handlers
     THEN /\ hstack' = Append(hstack, "h271")
          /\ nested' = (nested \/ hstack # <<>>)
          /\ pc' = pc
     ELSE /\ hstack' = <<>>
          /\ pc' = "killed"
          /\ UNCHANGED nested
  /\ UNCHANGED <<hidDevices, output_sink, handlers, calls>>
  /\ UNCHANGED <<stopInfo, discInfo, afterClose, ignored>>
  /\ UNCHANGED <<sessionVars, loopVars, codecVars, auxVars>>

HTop == hstack[Len(hstack)]
HGoto(p) == hstack' = [hstack EXCEPT ![Len(hstack)] = p]
HReturn == hstack' = SubSeq(hstack, 1, Len(hstack) - 1)
HAt(p) == pc \in MainPcs /\ hstack # <<>> /\ HTop = p
HFrame == UNCHANGED <<pc, envVars, calls, loopVars, codecVars, auxVars>>

\* self.CLOSE = True
CloseSetFlag ==
  /\ HAt("h271")
  /\ CLOSE' = TRUE
  /\ stopInfo' = IF CLOSE THEN stopInfo ELSE FlagInfo("requested")
  /\ afterClose' = [afterClose EXCEPT !.armed = TRUE]
  /\ HGoto("h272")
  /\ UNCHANGED <<dev, CHATMIX_CONTROLS_ENABLED, SONAR_ICON_ENABLED, written, writers, lastCmd>>
  /\ UNCHANGED <<discInfo, nested, ignored>>
  /\ HFrame

CloseTestChatmixMut ==
  /\ HAt("h272")
  /\ HGoto("h274")
  /\ UNCHANGED <<sessionVars, histVars>>
  /\ HFrame

\* if self.CHATMIX_CONTROLS_ENABLED:
CloseTestChatmix ==
  /\ HAt("h272")
  /\ IF CHATMIX_CONTROLS_ENABLED THEN HGoto("h201") ELSE HGoto("h274")
  /\ UNCHANGED <<sessionVars, histVars>>
  /\ HFrame

\* set_chatmix_controls(False): self.dev.write(...)
CloseWriteChatmix ==
  /\ HAt("h201")
  /\ dev # {}
  /\ written' = Append(written, ChatmixControlsMsg(FALSE).bytes)
  /\ writers' = Append(writers, "set_chatmix_controls")
  /\ lastCmd' = [lastCmd EXCEPT !.chatmix = <<FALSE>>]
  /\ HGoto("h204")
  /\ UNCHANGED <<dev, CLOSE, CHATMIX_CONTROLS_ENABLED, SONAR_ICON_ENABLED>>
  /\ UNCHANGED histVars
  /\ HFrame

\* set_chatmix_controls(False): self.CHATMIX_CONTROLS_ENABLED = state
CloseClearChatmix ==
  /\ HAt("h204")
  /\ CHATMIX_CONTROLS_ENABLED' = FALSE
  /\ HGoto("h274")
  /\ UNCHANGED <<dev, CLOSE, SONAR_ICON_ENABLED, written, writers, lastCmd>>
  /\ UNCHANGED histVars
  /\ HFrame

\* if self.SONAR_ICON_ENABLED:
CloseTestIcon ==
  /\ HAt("h274")
  /\ IF SONAR_ICON_ENABLED THEN HGoto("h209") ELSE HReturn
  /\ UNCHANGED <<sessionVars, histVars>>
  /\ HFrame

\* set_sonar_icon(False): self.dev.write(...)
CloseWriteIcon ==
  /\ HAt("h209")
  /\ dev # {}
  /\ written' = Append(written, SonarIconMsg(FALSE).bytes)
  /\ writers' = Append(writers, "set_sonar_icon")
  /\ lastCmd' = [lastCmd EXCEPT !.icon = <<FALSE>>]
  /\ HGoto("h212")
  /\ UNCHANGED <<dev, CLOSE, CHATMIX_CONTROLS_ENABLED, SONAR_ICON_ENABLED>>
  /\ UNCHANGED histVars
  /\ HFrame

\* set_sonar_icon(False): self.SONAR_ICON_ENABLED = state; close returns
CloseClearIcon ==
  /\ HAt("h212")
  /\ SONAR_ICON_ENABLED' = FALSE
  /\ HReturn
  /\ UNCHANGED <<dev, CLOSE, CHATMIX_CONTROLS_ENABLED, written, writers, lastCmd>>
  /\ UNCHANGED histVars
  /\ HFrame

(* --------------------------- specification ----------------------------- *)
\* class attributes and locals before anything has run
Fresh ==
  /\ output_sink = "none"
  /\ CLOSE = FALSE
  /\ CHATMIX_CONTROLS_ENABLED = FALSE
  /\ SONAR_ICON_ENABLED = FALSE
  /\ handlers = {}
  /\ hstack = <<>>
  /\ sigCount = 0
  /\ written = <<>>
  /\ writers = <<>>
  /\ msg = <<>>
  /\ sinkProcs = [main |-> "none", chat |-> "none"]
  /\ pactl = [n |-> 0, last |-> <<>>]
  /\ setVolumesCalls = [n |-> 0, last |-> <<>>]
  /\ chatmixCloseCalls = 0
  /\ rxChatMix = [n |-> 0, last |-> <<>>]
  /\ stopInfo = NoFlagInfo
  /\ discInfo = NoFlagInfo
  /\ nested = FALSE
  /\ ignored = FALSE
  /\ afterClose = [armed |-> FALSE, reads |-> 0, vols |-> 0]
  /\ lastCmd = [chatmix |-> <<>>, icon |-> <<>>]
  /\ calls = 0
  /\ encIn = <<>>
  /\ encOut = [err |-> "none", bytes |-> <<>>]
  /\ decOut = [opcode |-> 0, payload |-> <<>>]
  /\ fault = "none"
  /\ pending = {}
  /\ sinkVolume = [s \in {PW_GAME_SINK, PW_CHAT_SINK} |-> <<>>]
  /\ printed = <<>>

\* the main program, on a host with any of the devices attached
Init ==
  /\ pc = "start"
  /\ hidDevices \in Hosts
  /\ dev = {}
  /\ Fresh

ProgramStep ==
  \/ NovaInit \/ MainSonarIcon \/ MainChatmixControls \/ InstallSigint \/ InstallSigterm
  \/ AssertOutputSink \/ CreateChatMix
  \/ LoopCheck \/ ReadTimeout \/ ReadFrame \/ ReadError \/ Act \/ ChatMixClose
  \/ CloseSetFlag \/ CloseTestChatmix \/ CloseWriteChatmix \/ CloseClearChatmix
  \/ CloseTestIcon \/ CloseWriteIcon \/ CloseClearIcon

Next == ProgramStep \/ Signal("SIGINT") \/ Signal("SIGTERM")

Spec == Init /\ [][Next]_vars

\* the interpreter keeps running the program and every read returns; when a
\* signal arrives is up to the environment
LiveSpec == Init /\ [][Next]_vars /\ WF_vars(ProgramStep)

(* ------------- the setters on an open session, in any order ------------ *)
Attenuations == {0, 56, 255, 256, -1}
Presets == {0, 4, 255, 256}

\* NovaProWireless.close(signum, frame), run without interruption
close ==
  LET w1 == IF CHATMIX_CONTROLS_ENABLED
            THEN Append(written, ChatmixControlsMsg(FALSE).bytes) ELSE written
      n1 == IF CHATMIX_CONTROLS_ENABLED
            THEN Append(writers, "set_chatmix_controls") ELSE writers
  IN  /\ dev # {}
      /\ CLOSE' = TRUE
      /\ written' = IF SONAR_ICON_ENABLED THEN Append(w1, SonarIconMsg(FALSE).bytes) ELSE w1
      /\ writers' = IF SONAR_ICON_ENABLED THEN Append(n1, "set_sonar_icon") ELSE n1
      /\ CHATMIX_CONTROLS_ENABLED' = IF CHATMIX_CONTROLS_ENABLED THEN FALSE
                                     ELSE CHATMIX_CONTROLS_ENABLED
      /\ SONAR_ICON_ENABLED' = IF SONAR_ICON_ENABLED THEN FALSE ELSE SONAR_ICON_ENABLED
      /\ lastCmd' = [chatmix |-> IF CHATMIX_CONTROLS_ENABLED THEN <<FALSE>> ELSE lastCmd.chatmix,
                     icon |-> IF SONAR_ICON_ENABLED THEN <<FALSE>> ELSE lastCmd.icon]
      /\ UNCHANGED dev

SessionCall ==
  /\ pc = "session"
  /\ calls < MaxCalls
  /\ calls' = calls + 1
  /\ UNCHANGED <<pc, envVars, hstack, loopVars, histVars, codecVars, auxVars>>

SessionSetChatmixControls == SessionCall /\ \E state \in BOOLEAN : set_chatmix_controls(state)
SessionSetSonarIcon == SessionCall /\ \E state \in BOOLEAN : set_sonar_icon(state)
SessionSetVolume == SessionCall /\ \E attenuation \in Attenuations : set_volume(attenuation)
SessionSetEqPreset == SessionCall /\ \E preset \in Presets : set_eq_preset(preset)
SessionClose == SessionCall /\ close

SessionInit ==
  /\ pc = "session"
  /\ hidDevices = {GoodDevice}
  /\ dev = {GoodDevice}
  /\ Fresh

SessionNext ==
  \/ SessionSetChatmixControls \/ SessionSetSonarIcon \/ SessionSetVolume
  \/ SessionSetEqPreset \/ SessionClose

SessionSpec == SessionInit /\ [][SessionNext]_vars

(* ------------------ _create_msgdata and its readers -------------------- *)
Fill(n, b) == [i \in 1..n |-> b]
Ramp(n, b) == [i \in 1..n |-> (b + i) % 256]

\* payloads of every length up to two past the frame, and payloads holding a
\* value that is no byte
CodecPayloads ==
  {Fill(n, b) : n \in 0..MSGLEN, b \in ByteSamples}
    \cup {Ramp(n, b) : n \in 0..MSGLEN, b \in ByteSamples}
    \cup {<<a, b>> : a \in ByteSamples \cup {256, -1}, b \in ByteSamples}

CodecInputs ==
  {<<d, op>> \o p : d \in {TX, RX}, op \in KnownOpcodes \cup UnknownOpcodes, p \in CodecPayloads}
    \cup {<<>>, <<TX>>}

\* _create_msgdata(data)
CodecEncode ==
  /\ pc = "codec"
  /\ \E data \in CodecInputs :
       /\ encIn' = data
       /\ encOut' = create_msgdata(data)
  /\ decOut' = [opcode |-> 0, payload |-> <<>>]
  /\ pc' = "encoded"
  /\ UNCHANGED <<envVars, hstack, calls, sessionVars, loopVars, histVars, auxVars>>

\* msg[1] and msg[2:] of the frame, as chatmix_volume_control and print_output read it
CodecDecode ==
  /\ pc = "encoded"
  /\ encOut.err = "none"
  /\ decOut' = [opcode |-> msgOpcode(encOut.bytes), payload |-> msgPayload(encOut.bytes)]
  /\ pc' = "decoded"
  /\ UNCHANGED <<envVars, hstack, calls, sessionVars, loopVars, histVars, encIn, encOut, auxVars>>

CodecInit ==
  /\ pc = "codec"
  /\ hidDevices = {}
  /\ dev = {}
  /\ Fresh

CodecNext == CodecEncode \/ CodecDecode

CodecSpec == CodecInit /\ [][CodecNext]_vars

(* ------------------------------ properties ----------------------------- *)
\* a ChatMix frame has been read and the loop has not acted on it yet
ChatMixPending == pc = "act" /\ msg # <<>> /\ msgOpcode(msg) = OPT_CHATMIX

\* disable frames for the feature with opcode op among written[from+1 ..]
DisableCount(op, from) ==
  Cardinality({i \in (from + 1)..Len(written) : written[i][2] = op /\ written[i][3] = 0})

\* C1: every ChatMix frame read, whatever its two payload bytes g and c (above
\* 100 included), leads to exactly one call set_volumes(g, c): the number of
\* calls equals the number of ChatMix frames read (less the one in hand), the
\* latest call carries the latest frame's bytes unaltered, and each call spawned
\* one volume command for the game sink and one for the chat sink.
C1_ChatMixForwardedOnce ==
  /\ setVolumesCalls.n = rxChatMix.n - (IF ChatMixPending THEN 1 ELSE 0)
  /\ pactl.n = 2 * setVolumesCalls.n
  /\ (~ChatMixPending /\ rxChatMix.n > 0) =>
       /\ setVolumesCalls.last = rxChatMix.last
       /\ pactl.last = <<[sink |-> "NovaGame", volume |-> rxChatMix.last[1]],
                         [sink |-> "NovaChat", volume |-> rxChatMix.last[2]]>>

C1_Witness ==
  /\ pc = "loop"
  /\ rxChatMix.n = 2
  /\ rxChatMix.last = <<255, 101>>
  /\ setVolumesCalls = [n |-> 2, last |-> <<255, 101>>]

\* C2: when the loop acts on a frame whose opcode byte is not ChatMix (another
\* known opcode or an unknown byte), it calls no volume setter, spawns no
\* command, writes nothing, leaves the stop flag as it is and goes back to the
\* loop condition.
C2_OtherFramesDiscarded ==
  [][(pc = "act" /\ pc' # "act" /\ msg # <<>> /\ msgOpcode(msg) # OPT_CHATMIX)
       => /\ setVolumesCalls' = setVolumesCalls
          /\ pactl' = pactl
          /\ written' = written
          /\ CLOSE' = CLOSE
          /\ pc' = "loop"]_vars

C2_Witness ==
  /\ pc = "read"
  /\ ~CLOSE
  /\ ignored
  /\ rxChatMix.n = 0
  /\ setVolumesCalls.n = 0
  /\ written = <<SonarIconMsg(TRUE).bytes, ChatmixControlsMsg(TRUE).bytes>>

C4_StopDisablesFeatures ==
  pc = "done" =>
    /\ stopInfo.chatmix => DisableCount(OPT_CHATMIX_ENABLE, stopInfo.len) >= 1
    /\ stopInfo.icon => DisableCount(OPT_SONAR_ICON, stopInfo.len) >= 1
    /\ sinkProcs = [main |-> "terminated", chat |-> "terminated"]

\* C5: a signal handled while the loop is running leads to the end of the loop
\* and to ChatMix.close, given that the program keeps running and reads return;
\* and after close has set CLOSE the loop starts at most one read and makes at
\* most one set_volumes call.
C5_SignalStopsLoop ==
  /\ [](afterClose.reads <= 1 /\ afterClose.vols <= 1)
  /\ ((pc \in LoopPcs /\ hstack # <<>>) ~> (pc = "done" /\ chatmixCloseCalls = 1))

C5_Witness ==
  /\ pc = "done"
  /\ stopInfo.cause = "requested"
  /\ afterClose = [armed |-> TRUE, reads |-> 1, vols |-> 1]
  /\ chatmixCloseCalls = 1

\* the flag a feature should carry after the frames written so far: the payload
\* byte of the latest frame with the feature's opcode, false when there is none
LastSent(op) ==
  LET sent == {i \in 1..Len(written) : written[i][2] = op}
  IN  IF sent = {} THEN FALSE
      ELSE written[CHOOSE i \in sent : \A j \in sent : j <= i][3] = 1

LastArg(args) == IF args = <<>> THEN FALSE ELSE args[1]

\* C6: after any sequence of setter calls on an open session each feature flag
\* equals the argument of the latest command sent for that feature - by the
\* caller's account and by the frames on the wire - and is false when none was
\* sent; set_volume, set_eq_preset and the other feature's setter do not touch it.
C6_FlagsFollowLastCommand ==
  pc = "session" =>
    /\ CHATMIX_CONTROLS_ENABLED = LastArg(lastCmd.chatmix)
    /\ CHATMIX_CONTROLS_ENABLED = LastSent(OPT_CHATMIX_ENABLE)
    /\ SONAR_ICON_ENABLED = LastArg(lastCmd.icon)
    /\ SONAR_ICON_ENABLED = LastSent(OPT_SONAR_ICON)

C6_Witness ==
  /\ pc = "session"
  /\ writers = <<"set_chatmix_controls", "set_volume", "set_sonar_icon">>
  /\ lastCmd = [chatmix |-> <<FALSE>>, icon |-> <<TRUE>>]
  /\ ~CHATMIX_CONTROLS_ENABLED
  /\ SONAR_ICON_ENABLED

AllBytes(data) == \A i \in 1..Len(data) : data[i] \in 0..255

\* C7: _create_msgdata of a data tuple longer than 63 bytes (payload longer than
\* 61) fails and yields no frame; a tuple of exactly 63 bytes (payload of 61)
\* yields those 63 bytes, unpadded.
C7_PayloadTooLarge ==
  pc \in {"encoded", "decoded"} =>
    /\ Len(encIn) > MSGLEN => (encOut.err # "none" /\ encOut.bytes = <<>>)
    /\ (Len(encIn) = MSGLEN /\ AllBytes(encIn)) => (encOut.err = "none" /\ encOut.bytes = encIn)

\* payload width of each known opcode
OpcodeWidth(op) == IF op \in {OPT_CHATMIX, OPT_EQ} THEN 2 ELSE 1

RoundTripInput ==
  /\ Len(encIn) >= 2
  /\ encIn[1] \in {TX, RX}
  /\ encIn[2] \in KnownOpcodes
  /\ Len(encIn) = 2 + OpcodeWidth(encIn[2])
  /\ AllBytes(encIn)

\* C8: for a direction, a known opcode and a payload of the opcode's width,
\* _create_msgdata succeeds with a frame of 63 bytes, and reading byte 1 as the
\* opcode and bytes 2 onward as the payload gives back the opcode and the
\* payload bytes, followed by zeros only.
C8_RoundTrip ==
  (pc \in {"encoded", "decoded"} /\ RoundTripInput) =>
    /\ encOut.err = "none"
    /\ Len(encOut.bytes) = MSGLEN
    /\ pc = "decoded" =>
         /\ decOut.opcode = encIn[2]
         /\ SubSeq(decOut.payload, 1, OpcodeWidth(encIn[2])) = SubSeq(encIn, 3, Len(encIn))
         /\ \A i \in (OpcodeWidth(encIn[2]) + 1)..Len(decOut.payload) : decOut.payload[i] = 0

C8_Witness ==
  /\ pc = "decoded"
  /\ encIn = <<RX, OPT_CHATMIX, 255, 70>>
  /\ decOut.opcode = OPT_CHATMIX

SetterOpcode(setter) ==
  CASE setter = "set_chatmix_controls" -> OPT_CHATMIX_ENABLE
    [] setter = "set_sonar_icon" -> OPT_SONAR_ICON
    [] setter = "set_volume" -> OPT_VOLUME
    [] setter = "set_eq_preset" -> OPT_EQ_PRESET

\* C9: every frame written by a setter, called directly or from close, is 63
\* bytes long, starts with TX and the setter's opcode, and is zero after its one
\* payload byte.
C9_WrittenFramesWellFormed ==
  /\ Len(writers) = Len(written)
  /\ \A i \in 1..Len(written) :
       /\ Len(written[i]) = MSGLEN
       /\ written[i][1] = TX
       /\ written[i][2] = SetterOpcode(writers[i])
       /\ \A j \in 4..Len(written[i]) : written[i][j] = 0

C9_Witness ==
  /\ pc = "session"
  /\ CLOSE
  /\ writers = <<"set_sonar_icon", "set_volume", "set_sonar_icon">>
  /\ written[2][3] = 255

\* no attached device has the vendor id, a listed product id and interface 4
NoMatchingDevice ==
  ~\E d \in hidDevices :
     d.vid = VID /\ d.pid \in {PID_LIST[k] : k \in 1..Len(PID_LIST)} /\ d.iface = INTERFACE

\* C10: with no matching HID device attached the program never gets past its
\* start: it ends in the DeviceNotFound exit (or is ended by a signal before),
\* no device is opened, no frame is written, no flag is set and no loopback
\* process exists.
C10_DeviceNotFound ==
  NoMatchingDevice =>
    /\ pc \in {"start", "notfound", "killed"}
    /\ (sigCount = 0 /\ pc # "start") => pc = "notfound"
    /\ dev = {}
    /\ written = <<>>
    /\ ~CHATMIX_CONTROLS_ENABLED /\ ~SONAR_ICON_ENABLED /\ ~CLOSE
    /\ sinkProcs = [main |-> "none", chat |-> "none"]

C10_Witness ==
  /\ pc = "notfound"
  /\ hidDevices = {WrongInterface, WrongProduct}
  /\ written = <<>>

(* ---------------- errors other than a read's OSError ------------------- *)
WriteErrors == {"OSError", "ValueError"}
SetterErrors == {"OSError", "SubprocessError"}
ShortFrames == {<<RX>>, <<RX, OPT_VOLUME>>, <<RX, OPT_CHATMIX>>, <<RX, OPT_CHATMIX, 70>>}

\* the statement the main program is at is inside the try of lines 233-246
InTry == pc \in {"read", "act"}

\* except OSError (line 244) is the only handler of chatmix_volume_control
Caught(e) == InTry /\ e = "OSError"

\* msg[1], msg[2] or msg[3] of lines 237 and 243 is past the end of the frame
IndexRaises(f) == Len(f) < 2 \/ (f[2] = OPT_CHATMIX /\ Len(f) < 4)

\* self.dev.write of a disable frame raises inside close: the error leaves
\* every running invocation of the handler and arrives at the statement the
\* main program was at
HandlerWriteRaises ==
  /\ fault = "none"
  /\ HAt("h201") \/ HAt("h209")
  /\ dev # {}
  /\ \E e \in WriteErrors :
       IF Caught(e)
       THEN CLOSE' = TRUE /\ pc' = "loop"
       ELSE pc' = "crashed" /\ UNCHANGED CLOSE
  /\ msg' = <<>>
  /\ hstack' = <<>>
  /\ fault' = "write"
  /\ UNCHANGED <<dev, CHATMIX_CONTROLS_ENABLED, SONAR_ICON_ENABLED, written, writers, lastCmd>>
  /\ UNCHANGED <<sinkProcs, pactl, setVolumesCalls, chatmixCloseCalls, rxChatMix>>
  /\ UNCHANGED <<envVars, calls, histVars, codecVars, pending, sinkVolume, printed>>

\* self.dev.read returns fewer bytes than the loop indexes
ReadShortFrame ==
  /\ fault = "none"
  /\ MainAt("read")
  /\ \E f \in ShortFrames :
       IF IndexRaises(f)
       THEN pc' = "crashed" /\ fault' = "index" /\ UNCHANGED ignored
       ELSE pc' = "loop" /\ ignored' = TRUE /\ UNCHANGED fault
  /\ afterClose' = IF afterClose.armed
                   THEN [afterClose EXCEPT !.reads = Bump(afterClose.reads)]
                   ELSE afterClose
  /\ UNCHANGED <<stopInfo, discInfo, nested>>
  /\ UNCHANGED <<envVars, hstack, calls, sessionVars, loopVars, codecVars>>
  /\ UNCHANGED <<pending, sinkVolume, printed>>

\* self.dev.read raises something that is not an OSError
ReadRaisesOther ==
  /\ fault = "none"
  /\ MainAt("read")
  /\ pc' = IF Caught("ValueError") THEN "loop" ELSE "crashed"
  /\ fault' = "read"
  /\ UNCHANGED <<envVars, hstack, calls, sessionVars, loopVars, histVars, codecVars>>
  /\ UNCHANGED <<pending, sinkVolume, printed>>

\* the first Popen of chatmix.set_volumes (line 243) raises
SetVolumesRaises ==
  /\ fault = "none"
  /\ MainAt("act")
  /\ msg # <<>> /\ msgOpcode(msg) = OPT_CHATMIX
  /\ \E e \in SetterErrors :
       IF Caught(e)
       THEN CLOSE' = TRUE /\ pc' = "loop"
       ELSE pc' = "crashed" /\ UNCHANGED CLOSE
  /\ msg' = <<>>
  /\ fault' = "volume"
  /\ UNCHANGED <<dev, CHATMIX_CONTROLS_ENABLED, SONAR_ICON_ENABLED, written, writers, lastCmd>>
  /\ UNCHANGED <<sinkProcs, pactl, setVolumesCalls, chatmixCloseCalls, rxChatMix>>
  /\ UNCHANGED <<envVars, hstack, calls, histVars, codecVars, pending, sinkVolume, printed>>

FaultStep == HandlerWriteRaises \/ ReadShortFrame \/ ReadRaisesOther \/ SetVolumesRaises

FaultNext == Next \/ FaultStep

\* the main program where, once in a run, one of these errors may happen
FaultSpec == Init /\ [][FaultNext]_vars

(* ------------------- a ChatMix object and its processes ---------------- *)
\* set_volumes on the object: the two pactl processes are spawned and not waited for
ObjSetVolumes ==
  /\ pc = "chatmix_obj"
  /\ setVolumesCalls.n < MaxFrames
  /\ \E l \in ChatMixLevels :
       /\ set_volumes(l[1], l[2])
       /\ pending' = pending \cup
            {[sink |-> PW_GAME_SINK, volume |-> l[1], call |-> setVolumesCalls.n + 1],
             [sink |-> PW_CHAT_SINK, volume |-> l[2], call |-> setVolumesCalls.n + 1]}
  /\ UNCHANGED <<pc, msg, sinkProcs, chatmixCloseCalls, rxChatMix, fault, sinkVolume, printed>>
  /\ UNCHANGED <<envVars, hstack, calls, sessionVars, histVars, codecVars>>

\* one of the spawned pactl processes runs: the operating system picks which;
\* it sets the volume if the sink's loopback process is still there
PactlRun ==
  /\ pc = "chatmix_obj"
  /\ \E c \in pending :
       /\ pending' = pending \ {c}
       /\ sinkVolume' =
            IF (IF c.sink = PW_GAME_SINK THEN sinkProcs.main ELSE sinkProcs.chat) = "running"
            THEN [sinkVolume EXCEPT ![c.sink] = <<c.volume>>]
            ELSE sinkVolume
  /\ UNCHANGED <<pc, fault, printed>>
  /\ UNCHANGED <<envVars, hstack, calls, sessionVars, loopVars, histVars, codecVars>>

\* close on the object, any number of times
ObjClose ==
  /\ pc = "chatmix_obj"
  /\ calls < MaxCalls
  /\ calls' = calls + 1
  /\ sinkProcs' = ChatMix_close(sinkProcs).procs
  /\ chatmixCloseCalls' = chatmixCloseCalls + 1
  /\ pc' = IF ChatMix_close(sinkProcs).err = "none" THEN "chatmix_obj" ELSE "chatmix_obj_raised"
  /\ UNCHANGED <<msg, pactl, setVolumesCalls, rxChatMix>>
  /\ UNCHANGED <<envVars, hstack, sessionVars, histVars, codecVars, auxVars>>

\* after ChatMix.__init__: both loopback processes run
ChatMixInit ==
  /\ pc = "chatmix_obj"
  /\ hidDevices = {}
  /\ dev = {}
  /\ output_sink = "found"
  /\ CLOSE = FALSE
  /\ CHATMIX_CONTROLS_ENABLED = FALSE
  /\ SONAR_ICON_ENABLED = FALSE
  /\ handlers = {}
  /\ hstack = <<>>
  /\ sigCount = 0
  /\ written = <<>>
  /\ writers = <<>>
  /\ msg = <<>>
  /\ sinkProcs = [main |-> "running", chat |-> "running"]
  /\ pactl = [n |-> 0, last |-> <<>>]
  /\ setVolumesCalls = [n |-> 0, last |-> <<>>]
  /\ chatmixCloseCalls = 0
  /\ rxChatMix = [n |-> 0, last |-> <<>>]
  /\ stopInfo = NoFlagInfo
  /\ discInfo = NoFlagInfo
  /\ nested = FALSE
  /\ ignored = FALSE
  /\ afterClose = [armed |-> FALSE, reads |-> 0, vols |-> 0]
  /\ lastCmd = [chatmix |-> <<>>, icon |-> <<>>]
  /\ calls = 0
  /\ encIn = <<>>
  /\ encOut = [err |-> "none", bytes |-> <<>>]
  /\ decOut = [opcode |-> 0, payload |-> <<>>]
  /\ fault = "none"
  /\ pending = {}
  /\ sinkVolume = [s \in {PW_GAME_SINK, PW_CHAT_SINK} |-> <<>>]
  /\ printed = <<>>

ChatMixNext == ObjSetVolumes \/ PactlRun \/ ObjClose

ChatMixSpec == ChatMixInit /\ [][ChatMixNext]_vars

(* ------------------------- print_output ------------------------------- *)
\* what print_output prints for a frame with opcode op (match msg[1])
PrintKind(op) ==
  CASE op = OPT_VOLUME -> "Volume"
    [] op = OPT_CHATMIX -> "Game Volume - Chat Volume"
    [] op = OPT_EQ -> "EQ"
    [] op = OPT_EQ_PRESET -> "EQ Preset"
    [] OTHER -> "Unknown Message"

PrintFrame == UNCHANGED <<envVars, hstack, calls, dev, CHATMIX_CONTROLS_ENABLED,
                          SONAR_ICON_ENABLED, written, writers, lastCmd, sinkProcs, pactl,
                          setVolumesCalls, chatmixCloseCalls, rxChatMix, histVars, codecVars,
                          pending, sinkVolume>>

\* while not self.CLOSE:
PrintCheck ==
  /\ pc = "po_loop"
  /\ pc' = IF CLOSE THEN "po_done" ELSE "po_read"
  /\ UNCHANGED <<CLOSE, msg, fault, printed>>
  /\ PrintFrame

\* msg = self.dev.read(self.MSGLEN, self.READ_TIMEOUT): a frame, nothing within
\* the timeout, or OSError, which nothing in print_output catches
PrintRead ==
  /\ pc = "po_read"
  /\ Len(printed) < MaxFrames
  /\ \/ \E f \in OtherFrames \cup ChatMixFrames :
          msg' = f /\ pc' = "po_match" /\ UNCHANGED fault
     \/ msg' = <<>> /\ pc' = "po_match" /\ UNCHANGED fault
     \/ pc' = "po_raised" /\ fault' = "read" /\ UNCHANGED msg
  /\ UNCHANGED <<CLOSE, printed>>
  /\ PrintFrame

\* match msg[1]: one print per frame; msg[1] of an empty list raises IndexError
PrintMatch ==
  /\ pc = "po_match"
  /\ IF msg = <<>>
     THEN pc' = "po_raised" /\ fault' = "index" /\ UNCHANGED printed
     ELSE pc' = "po_loop" /\ printed' = Append(printed, PrintKind(msgOpcode(msg)))
          /\ UNCHANGED fault
  /\ UNCHANGED <<CLOSE, msg>>
  /\ PrintFrame

\* NovaProWireless.close runs between two statements of print_output (no
\* feature is enabled: it only sets CLOSE)
PrintStop ==
  /\ pc \in {"po_loop", "po_read", "po_match"}
  /\ ~CLOSE
  /\ CLOSE' = TRUE
  /\ UNCHANGED <<pc, msg, fault, printed>>
  /\ PrintFrame

\* a session with the device open, print_output just called
PrintInit ==
  /\ pc = "po_loop"
  /\ hidDevices = {GoodDevice}
  /\ dev = {GoodDevice}
  /\ Fresh

PrintNext == PrintCheck \/ PrintRead \/ PrintMatch \/ PrintStop

PrintSpec == PrintInit /\ [][PrintNext]_vars

\* C11: the loop reads only while both loopback processes run; set_volumes is
\* called only while both run (after creation, before teardown); ChatMix.close
\* is called at most once, and once both processes have been created the
\* program ends only in the state after the one call of ChatMix.close, with
\* both processes terminated - whatever signals and read errors came between.
C11_SinksLiveWithLoop ==
  /\ [](/\ pc \in {"read", "act"} => sinkProcs = [main |-> "running", chat |-> "running"]
        /\ chatmixCloseCalls <= 1
        /\ (pc \in TerminalPcs /\ sinkProcs.main # "none" /\ sinkProcs.chat # "none") =>
             /\ pc = "done"
             /\ chatmixCloseCalls = 1
             /\ sinkProcs = [main |-> "terminated", chat |-> "terminated"])
  /\ [][setVolumesCalls' # setVolumesCalls =>
          (sinkProcs = [main |-> "running", chat |-> "running"] /\ chatmixCloseCalls = 0)]_vars

C11_Witness ==
  /\ pc = "done"
  /\ stopInfo.cause = "requested"
  /\ discInfo.cause = "disconnected"
  /\ sigCount = 2
  /\ setVolumesCalls.n = 1
  /\ chatmixCloseCalls = 1

\* C12: a second (or later) call of ChatMix.close raises nothing and leaves both
\* loopback processes terminated, as the first call left them.
C12_CloseIdempotent ==
  /\ pc # "chatmix_obj_raised"
  /\ (pc = "chatmix_obj" /\ chatmixCloseCalls >= 1) =>
       sinkProcs = [main |-> "terminated", chat |-> "terminated"]

C12_Witness ==
  /\ pc = "chatmix_obj"
  /\ chatmixCloseCalls = 2
  /\ sinkProcs = [main |-> "terminated", chat |-> "terminated"]

BothSinksCreated == sinkProcs.main # "none" /\ sinkProcs.chat # "none"

TornDown ==
  /\ pc = "done"
  /\ chatmixCloseCalls = 1
  /\ sinkProcs = [main |-> "terminated", chat |-> "terminated"]

\* C13: when the write of a disable frame has raised inside the signal handler
\* and the program has ended, chatmix.close() was called and both loopback
\* processes are terminated.
C13_FailedDisableStillTearsDown ==
  (fault = "write" /\ pc \in TerminalPcs /\ BothSinksCreated) => TornDown

\* C14: when indexing the frame, the read (other than by OSError) or the volume
\* setter has raised in the loop and the program has ended, chatmix.close() was
\* called and both loopback processes are terminated.
C14_LoopErrorsTearDown ==
  (fault \in {"index", "read", "volume"} /\ pc \in TerminalPcs /\ BothSinksCreated) => TornDown

\* C15: over the whole run, whatever the order and timing of the signals (a
\* second one arriving inside the handler of the first included), at most one
\* disable frame is written for each feature.
C15_OneDisablePerFeature ==
  /\ DisableCount(OPT_CHATMIX_ENABLE, 0) <= 1
  /\ DisableCount(OPT_SONAR_ICON, 0) <= 1

\* C16: when the program has ended, in whatever way, no feature flag is still
\* true (every enabled feature has been disabled before the end).
C16_NoFlagLeftSet ==
  pc \in TerminalPcs => (~CHATMIX_CONTROLS_ENABLED /\ ~SONAR_ICON_ENABLED)

\* positions in written[from+1 ..] of the frames of opcode op that disable
DisableAt(op, from) ==
  {i \in (from + 1)..Len(written) : written[i][2] = op /\ written[i][3] = 0}

\* C17: after a stop requested by signal with both features enabled, when
\* chatmix.close() has run the ChatMix-controls disable frame is the first frame
\* written since the request, a Sonar-icon disable frame follows it, and nothing
\* is written once chatmix.close() has run; chatmix.close() runs only when no
\* invocation of the handler is still active.
C17_DisableBeforeTeardown ==
  /\ []((chatmixCloseCalls >= 1 /\ stopInfo.cause = "requested"
          /\ stopInfo.chatmix /\ stopInfo.icon) =>
         /\ (stopInfo.len + 1) \in DisableAt(OPT_CHATMIX_ENABLE, stopInfo.len)
         /\ \E j \in DisableAt(OPT_SONAR_ICON, stopInfo.len) : j > stopInfo.len + 1)
  /\ [][chatmixCloseCalls' # chatmixCloseCalls => (hstack = <<>> /\ written' = written)]_vars
  /\ [][chatmixCloseCalls >= 1 => written' = written]_vars

C17_Witness ==
  /\ pc = "done"
  /\ chatmixCloseCalls = 1
  /\ stopInfo.cause = "requested"
  /\ stopInfo.chatmix
  /\ stopInfo.icon
  /\ afterClose.reads = 1
  /\ Len(written) = stopInfo.len + 2

\* C18: on a ChatMix object still open, once every spawned volume command has
\* run, each sink's volume is the level of the latest set_volumes call.
C18_LatestVolumeWins ==
  (pending = {} /\ setVolumesCalls.n > 0 /\ chatmixCloseCalls = 0) =>
    /\ sinkVolume[PW_GAME_SINK] = <<setVolumesCalls.last[1]>>
    /\ sinkVolume[PW_CHAT_SINK] = <<setVolumesCalls.last[2]>>

\* what a timed-out read must leave alone
TimeoutKeeps ==
  UNCHANGED <<setVolumesCalls, pactl, written, CLOSE, CHATMIX_CONTROLS_ENABLED,
              SONAR_ICON_ENABLED, sinkProcs, chatmixCloseCalls, rxChatMix>>

\* C19: a read that returns nothing (the step from the read to an empty msg)
\* and the loop's handling of the empty msg call no volume setter, write no
\* frame and leave CLOSE and the feature flags as they are; the handling ends
\* at the while test, and the program, kept running, gets there.
C19_TimeoutChangesNothing ==
  /\ [][(MainAt("read") /\ pc' = "act" /\ msg' = <<>>) => TimeoutKeeps]_vars
  /\ [][(MainAt("act") /\ msg = <<>> /\ pc' # pc) => (pc' = "loop" /\ TimeoutKeeps)]_vars
  /\ ((pc = "act" /\ msg = <<>>) ~> (pc = "loop"))

\* the one read begun after the handler set CLOSE returned nothing (no frame
\* was ever read, no read failed), and the loop is back at its test
C19_Witness ==
  /\ pc = "loop"
  /\ hstack = <<>>
  /\ afterClose = [armed |-> TRUE, reads |-> 1, vols |-> 0]
  /\ msg = <<>>
  /\ rxChatMix.n = 0
  /\ ~ignored
  /\ discInfo.cause = "none"

\* C20: print_output never ends by an exception, and after each frame the
\* latest line printed is the one kind that belongs to the frame's opcode.
C20_PrintOutputNeverRaises ==
  /\ pc # "po_raised"
  /\ (pc = "po_loop" /\ msg # <<>>) =>
       (printed # <<>> /\ printed[Len(printed)] = PrintKind(msgOpcode(msg)))

====
